---- MODULE Spec2Model ----
(***************************************************************************)
(* Model of the draped-lines streaming node of bevy_draped_lines:          *)
(*   src/src/draped_lines_node.rs  DrapedLinesNode, draped_lines_node_system*)
(*   src/src/draped_line.rs        DrapedLine, DrapedLineUniform           *)
(*   src/src/main.rs               setup_render_graph, uniform::DRAPED_LINES*)
(*                                                                         *)
(* Buffers are modelled at the granularity of one Vec4 (16 bytes): every   *)
(* offset and size the code computes is a multiple of 16.  Floating point  *)
(* values are modelled by integers (exact arithmetic, no rounding).        *)
(***************************************************************************)
EXTENDS Integers, Sequences, FiniteSets, TLC

VARIABLES
    state,            \* Local<DrapedLinesNodeSystemState> without the queue
    command_queue,    \* the CommandQueue shared by the node and the system
    buffers,          \* RenderResourceContext: BufferId -> buffer
    bindings,         \* RenderResourceBindings: the bindings set so far
    panicked,         \* a panic (unwrap of None, use of an unmapped buffer)
    last,             \* the call the host made last: "none", "system", "update"
    last_lines,       \* the (line, transform) pairs the last system run saw
    ops,              \* the device calls the last system run made, in order
    executed,         \* the copies the last update executed, in order
    flushed,          \* whether an update has executed a copy so far
    written_count,    \* the lines the last run that was not skipped could hold
    pk_in,            \* input of the line packer
    pk_out            \* Option: the packed entry of pk_in

vars == <<state, command_queue, buffers, bindings, panicked, last, last_lines,
          ops, executed, flushed, written_count, pk_in, pk_out>>

nodeVars == <<state, command_queue, buffers, bindings, panicked, last,
              last_lines, ops, executed, flushed, written_count>>

pkVars == <<pk_in, pk_out>>

(***************************************************************************)
(* Bounds of the model.                                                    *)
(***************************************************************************)
MaxCapacity == 2      \* max_draped_lines ranges over 0..MaxCapacity
MaxLines == 3         \* a frame enumerates at most MaxLines lines
MaxQueue == 2         \* copies pending in the command queue

(***************************************************************************)
(* Option<T>                                                               *)
(***************************************************************************)
None == <<>>
Some(x) == <<x>>
unwrap(o) == o[1]

Min(a, b) == IF a <= b THEN a ELSE b

(***************************************************************************)
(* Layout.                                                                 *)
(***************************************************************************)
Vec4Size == 16
\* std::mem::size_of::<DrapedLineUniform>(): five Vec4-sized fields
draped_line_size == 5 * Vec4Size
\* std::mem::size_of::<DrapedLineCount>(): [u32; 4]
draped_line_count_size == 4 * 4

Vec4Of(x, y, z, w) == <<x, y, z, w>>
Zero4 == <<0, 0, 0, 0>>

\* bytes_of(&DrapedLineUniform): the fields in declaration order (repr(C))
BytesOfUniform(u) == <<u.point0, u.point1, u.width, u.color, u.plane_dir>>

\* bytes_of(&[count as u32, 0, 0, 0])
BytesOfCount(count) == <<Vec4Of(count, 0, 0, 0)>>

(***************************************************************************)
(* Vector, quaternion and matrix arithmetic used by the packing closure.   *)
(* A Quat is held as an integer 4-tuple <<x, y, z, w>> of squared norm 1   *)
(* or 2 standing for the unit quaternion of that direction, so that the    *)
(* quarter turns have exact matrices.                                      *)
(***************************************************************************)
Vec3Of(x, y, z) == [x |-> x, y |-> y, z |-> z]

Vec4Scale(v, s) == Vec4Of(v[1] * s, v[2] * s, v[3] * s, v[4] * s)

Vec4Add(a, b) == Vec4Of(a[1] + b[1], a[2] + b[2], a[3] + b[3], a[4] + b[4])

QuatNorm2(q) == q[1] * q[1] + q[2] * q[2] + q[3] * q[3] + q[4] * q[4]

\* the factor of x2 = x + x, y2 = y + y, z2 = z + z for the unit quaternion
QuatTwice(q) == 2 \div QuatNorm2(q)

\* Mat4::from_scale_rotation_translation (quat_to_axes, then the scale on
\* each axis and the translation as the fourth column)
from_scale_rotation_translation(scale, rotation, translation) ==
    LET x == rotation[1]
        y == rotation[2]
        z == rotation[3]
        w == rotation[4]
        k == QuatTwice(rotation)
        xx == k * x * x
        xy == k * x * y
        xz == k * x * z
        yy == k * y * y
        yz == k * y * z
        zz == k * z * z
        wx == k * w * x
        wy == k * w * y
        wz == k * w * z
        x_axis == Vec4Of(1 - (yy + zz), xy + wz, xz - wy, 0)
        y_axis == Vec4Of(xy - wz, 1 - (xx + zz), yz + wx, 0)
        z_axis == Vec4Of(xz + wy, yz - wx, 1 - (xx + yy), 0)
    IN  [x_axis |-> Vec4Scale(x_axis, scale.x),
         y_axis |-> Vec4Scale(y_axis, scale.y),
         z_axis |-> Vec4Scale(z_axis, scale.z),
         w_axis |-> Vec4Of(translation.x, translation.y, translation.z, 1)]

\* GlobalTransform::compute_matrix
compute_matrix(global_transform) ==
    from_scale_rotation_translation(global_transform.scale,
                                    global_transform.rotation,
                                    global_transform.translation)

\* Mat4 * Vec4: the linear combination of the columns
Mat4MulVec4(m, v) ==
    Vec4Add(Vec4Add(Vec4Scale(m.x_axis, v[1]), Vec4Scale(m.y_axis, v[2])),
            Vec4Add(Vec4Scale(m.z_axis, v[3]), Vec4Scale(m.w_axis, v[4])))

(***************************************************************************)
(* Color.                                                                  *)
(***************************************************************************)
Rgba(r, g, b, a) == [red |-> r, green |-> g, blue |-> b, alpha |-> a]
ColorRED == Rgba(1, 0, 0, 1)
ColorWHITE == Rgba(1, 1, 1, 1)
ColorBLUE == Rgba(0, 0, 1, 1)

\* impl From<Color> for Vec4
ColorIntoVec4(c) == Vec4Of(c.red, c.green, c.blue, c.alpha)

(***************************************************************************)
(* The packing of one line: the body of the loop of the write closure.     *)
(***************************************************************************)
\* the point taken as a direction: fourth component 0
PackPoint_w0(global_transform, p) ==
    Mat4MulVec4(compute_matrix(global_transform), Vec4Of(p.x, p.y, p.z, 0))

PackPoint(global_transform, p) ==
    Mat4MulVec4(compute_matrix(global_transform), Vec4Of(p.x, p.y, p.z, 1))

PackWidth(draped_line) == Vec4Of(draped_line.width, 0, 0, 0)

PackColor(draped_line) == ColorIntoVec4(ColorRED)

PackPlaneDir(draped_line, global_transform) ==
    Vec4Of(draped_line.plane_dir.x, draped_line.plane_dir.y,
           draped_line.plane_dir.z, 0)

DrapedLineUniformOf(draped_line, global_transform) ==
    [point0 |-> PackPoint(global_transform, draped_line.point0),
     point1 |-> PackPoint(global_transform, draped_line.point1),
     width |-> PackWidth(draped_line),
     color |-> PackColor(draped_line),
     plane_dir |-> PackPlaneDir(draped_line, global_transform)]

(***************************************************************************)
(* Inputs: lines and transforms.                                           *)
(***************************************************************************)
DrapedLineOf(p0, p1, w, c, d) ==
    [point0 |-> p0, point1 |-> p1, width |-> w, color |-> c, plane_dir |-> d]

GlobalTransformOf(t, r, s) == [translation |-> t, rotation |-> r, scale |-> s]

QuatIDENTITY == <<0, 0, 0, 1>>
GlobalTransformIdentity ==
    GlobalTransformOf(Vec3Of(0, 0, 0), QuatIDENTITY, Vec3Of(1, 1, 1))

NegY == Vec3Of(0, -1, 0)

\* the first line spawned by setup, with the default GlobalTransform
SetupLine ==
    [line |-> DrapedLineOf(Vec3Of(200, 0, 100), Vec3Of(200, 0, -100), 1,
                           ColorRED, NegY),
     transform |-> GlobalTransformIdentity]

\* a white line under a translated, quarter-turned (about Z), scaled owner
MovedLine ==
    [line |-> DrapedLineOf(Vec3Of(1, 2, 3), Vec3Of(4, 5, 6), 2, ColorWHITE,
                           Vec3Of(1, 0, 0)),
     transform |-> GlobalTransformOf(Vec3Of(10, 20, 30), <<0, 0, 1, 1>>,
                                     Vec3Of(2, 3, 4))]

LinePool == {SetupLine, MovedLine}

\* the enumerations a frame can yield: sequences over LinePool
RECURSIVE SeqsUpTo(_, _)
SeqsUpTo(S, n) ==
    IF n = 0 THEN {<<>>}
    ELSE LET shorter == SeqsUpTo(S, n - 1)
         IN  shorter \cup {Append(q, e) : q \in {r \in shorter : Len(r) = n - 1}, e \in S}

Enumerations == SeqsUpTo(LinePool, MaxLines)

\* the inputs the packer is checked on
PackPoints == {Vec3Of(0, 0, 0), Vec3Of(1, 2, 3), Vec3Of(-5, 0, 7)}
PackDirs == {NegY, Vec3Of(1, 0, 0), Vec3Of(2, -1, 3)}
PackColors == {ColorRED, ColorWHITE, ColorBLUE}
PackTranslations == {Vec3Of(0, 0, 0), Vec3Of(10, 20, 30)}
PackRotations == {QuatIDENTITY, <<0, 0, 1, 1>>, <<1, 0, 0, 0>>, <<0, 1, 0, 1>>,
                  <<1, 0, 0, -1>>}
PackScales == {Vec3Of(1, 1, 1), Vec3Of(2, 3, 4)}
PackInputs ==
    {[line |-> DrapedLineOf(p0, p1, 1, c, d),
      transform |-> GlobalTransformOf(t, r, s)] :
        p0 \in PackPoints, p1 \in {Vec3Of(1, 2, 3)}, c \in PackColors,
        d \in PackDirs, t \in PackTranslations, r \in PackRotations,
        s \in PackScales}

(***************************************************************************)
(* The device: RenderResourceContext.  A context value carries the buffers *)
(* (BufferId i is the i-th buffer created), whether every call so far was  *)
(* valid (an invalid call panics and nothing after it runs) and the calls  *)
(* made, in order.                                                         *)
(***************************************************************************)
\* the contents a buffer can hold when it is created: zeroes or leftovers
JunkVec4 == <<-1, -1, -1, -1>>
Fills == {Zero4, JunkVec4}

BufferInfoOf(size, usage, mapped_at_creation) ==
    [size |-> size, buffer_usage |-> usage,
     mapped_at_creation |-> mapped_at_creation]

ContextOf(bufs) == [buffers |-> bufs, ok |-> TRUE, ops |-> <<>>]

\* the id create_buffer returns next
NewBufferId(ctx) == Len(ctx.buffers) + 1

create_buffer(ctx, info, fill) ==
    IF ~ctx.ok THEN ctx
    ELSE [ctx EXCEPT
            !.buffers = Append(@,
                [size |-> info.size,
                 buffer_usage |-> info.buffer_usage,
                 mapped |-> info.mapped_at_creation,
                 data |-> [w \in 1..(info.size \div Vec4Size) |-> fill]]),
            !.ops = Append(@, [op |-> "create_buffer", buffer |-> NewBufferId(ctx),
                               size |-> info.size])]

map_buffer(ctx, id) ==
    IF ~ctx.ok THEN ctx
    ELSE IF ctx.buffers[id].mapped \/ "MAP_WRITE" \notin ctx.buffers[id].buffer_usage
         THEN [ctx EXCEPT !.ok = FALSE]
         ELSE [ctx EXCEPT !.buffers[id].mapped = TRUE,
                          !.ops = Append(@, [op |-> "map_buffer", buffer |-> id])]

\* write_mapped_buffer(id, lo..hi, closure): new_data is what the closure
\* leaves in the slice of the bytes lo..hi, written is the set of the
\* Vec4 places (counted from 0 in the slice) the closure stored to
write_mapped_buffer(ctx, id, lo, hi, new_data, written) ==
    IF ~ctx.ok THEN ctx
    ELSE IF ~ctx.buffers[id].mapped \/ hi > ctx.buffers[id].size
         THEN [ctx EXCEPT !.ok = FALSE]
         ELSE [ctx EXCEPT
                 !.buffers[id].data =
                     [w \in DOMAIN @ |->
                        IF (w - 1) * Vec4Size >= lo /\ (w - 1) * Vec4Size < hi
                        THEN new_data[w - (lo \div Vec4Size)]
                        ELSE @[w]],
                 !.ops = Append(@, [op |-> "write_mapped_buffer", buffer |-> id,
                                    written |-> written])]

\* the unmap left out
unmap_buffer_forgotten(ctx, id) == ctx

unmap_buffer(ctx, id) ==
    IF ~ctx.ok THEN ctx
    ELSE IF ~ctx.buffers[id].mapped
         THEN [ctx EXCEPT !.ok = FALSE]
         ELSE [ctx EXCEPT !.buffers[id].mapped = FALSE,
                          !.ops = Append(@, [op |-> "unmap_buffer", buffer |-> id])]

\* render_resource_bindings.set(name, ..), kept among the calls made
LogSetBinding(ctx, name) ==
    IF ~ctx.ok THEN ctx
    ELSE [ctx EXCEPT !.ops = Append(@, [op |-> "set_binding", name |-> name])]

\* the slice data[lo..hi] of a buffer's bytes, as Vec4s
Slice(data, lo, hi) ==
    [k \in 1..((hi - lo) \div Vec4Size) |-> data[k + (lo \div Vec4Size)]]

\* data[at..at + len].copy_from_slice(words)
copy_from_slice(data, at, words) ==
    [k \in DOMAIN data |->
        IF k - 1 >= at \div Vec4Size /\ k - 1 < (at \div Vec4Size) + Len(words)
        THEN words[k - (at \div Vec4Size)]
        ELSE data[k]]

(***************************************************************************)
(* The command queue.                                                      *)
(***************************************************************************)
CopyBufferToBuffer(src, src_off, dst, dst_off, size) ==
    [source_buffer |-> src, source_offset |-> src_off,
     destination_buffer |-> dst, destination_offset |-> dst_off, size |-> size]

\* the push with source and destination exchanged
copy_buffer_to_buffer_swapped(queue, src, src_off, dst, dst_off, size) ==
    Append(queue, CopyBufferToBuffer(dst, dst_off, src, src_off, size))

\* CommandQueue::copy_buffer_to_buffer: push
copy_buffer_to_buffer(queue, src, src_off, dst, dst_off, size) ==
    Append(queue, CopyBufferToBuffer(src, src_off, dst, dst_off, size))

\* RenderContext::copy_buffer_to_buffer: the copy itself
ExecuteCopy(bufs, c) ==
    [bufs EXCEPT ![c.destination_buffer].data =
        [w \in DOMAIN @ |->
            IF (w - 1) * Vec4Size >= c.destination_offset
               /\ (w - 1) * Vec4Size < c.destination_offset + c.size
            THEN bufs[c.source_buffer].data[
                    w + ((c.source_offset - c.destination_offset) \div Vec4Size)]
            ELSE @[w]]]

\* the loop of CommandQueue::execute: each command in order
RECURSIVE RunCommands(_, _, _)
RunCommands(queue, bufs, done) ==
    IF queue = <<>> THEN [buffers |-> bufs, executed |-> done]
    ELSE RunCommands(Tail(queue), ExecuteCopy(bufs, Head(queue)),
                     Append(done, Head(queue)))

\* a loop over the queue that leaves the commands in it
execute_iter(queue, bufs) ==
    LET r == RunCommands(queue, bufs, <<>>)
    IN  [buffers |-> r.buffers, executed |-> r.executed, queue |-> queue]

\* one command popped per call
execute_pop(queue, bufs) ==
    IF queue = <<>> THEN [buffers |-> bufs, executed |-> <<>>, queue |-> <<>>]
    ELSE [buffers |-> ExecuteCopy(bufs, Head(queue)),
          executed |-> <<Head(queue)>>, queue |-> Tail(queue)]

\* CommandQueue::execute: for command in self.queue.lock().drain(..)
execute(queue, bufs) ==
    LET r == RunCommands(queue, bufs, <<>>)
    IN  [buffers |-> r.buffers, executed |-> r.executed, queue |-> <<>>]

(***************************************************************************)
(* draped_lines_node_system                                                *)
(***************************************************************************)
\* a store of the closure: slot.copy_from_slice(words), keeping the places
\* stored to
Store(cl, at, words) ==
    [data |-> copy_from_slice(cl.data, at, words),
     written |-> cl.written \cup
        {(at \div Vec4Size) + k : k \in 0..(Len(words) - 1)}]

\* the number of pairs of draped_lines.iter().zip(data[start..end]
\* .chunks_exact_mut(draped_line_size))
ZipLen(lines, start, end) ==
    Min(Len(lines), (end - start) \div draped_line_size)

\* the loop storing the pairs in the reverse of the enumeration order
RECURSIVE WriteSlots_reversed(_, _, _, _, _)
WriteSlots_reversed(cl, lines, i, n, start) ==
    IF i >= n THEN cl
    ELSE WriteSlots_reversed(
            Store(cl, start + i * draped_line_size,
                  BytesOfUniform(DrapedLineUniformOf(lines[n - i].line,
                                                     lines[n - i].transform))),
            lines, i + 1, n, start)

\* the for loop of the closure, from its i-th pair on
RECURSIVE WriteSlots(_, _, _, _, _)
WriteSlots(cl, lines, i, n, start) ==
    IF i >= n THEN cl
    ELSE WriteSlots(
            Store(cl, start + i * draped_line_size,
                  BytesOfUniform(DrapedLineUniformOf(lines[i + 1].line,
                                                     lines[i + 1].transform))),
            lines, i + 1, n, start)

\* the closure clearing the whole slice before it stores
WriteClosure_zeroing(data, lines, draped_line_count, start, end) ==
    WriteSlots(Store([data |-> [k \in DOMAIN data |-> Zero4],
                      written |-> {k - 1 : k \in DOMAIN data}], 0,
                     BytesOfCount(draped_line_count)),
               lines, 0, ZipLen(lines, start, end), start)

\* the closure given to write_mapped_buffer
WriteClosure(data, lines, draped_line_count, start, end) ==
    WriteSlots(Store([data |-> data, written |-> {}], 0,
                     BytesOfCount(draped_line_count)),
               lines, 0, ZipLen(lines, start, end), start)

\* the count without the min
DrapedLineCount_untruncated(lines, max_draped_lines) == Len(lines)

\* draped_lines.iter().len().min(state.max_draped_lines)
DrapedLineCount(lines, max_draped_lines) == Min(Len(lines), max_draped_lines)

\* the size without the header
MaxDrapedLineUniformSize_no_header(max_draped_lines) ==
    draped_line_size * max_draped_lines

\* header size + capacity * entry size
MaxDrapedLineUniformSize(max_draped_lines) ==
    draped_line_count_size + draped_line_size * max_draped_lines

DRAPED_LINES == "DrapedLines"

\* RenderResourceBindings::set
SetBinding(bs, name, binding) ==
    {b \in bs : b.name # name} \cup {[name |-> name, binding |-> binding]}

\* the range taken from the end of the header
BufferBinding_after_header(buffer, lo, hi) ==
    [buffer |-> buffer, range_start |-> draped_line_count_size, range_end |-> hi]

BufferBinding(buffer, lo, hi) ==
    [buffer |-> buffer, range_start |-> lo, range_end |-> hi]

\* the early return tested on the enumeration instead of the truncated count
Skips_untruncated(st, lines) == st.staging_buffer # None /\ Len(lines) = 0

\* the early return taken whether or not the buffers exist
Skips_any_run(st, lines) == DrapedLineCount(lines, st.max_draped_lines) = 0

\* whether this run returns early: buffers exist and no line to write
Skips(st, lines) ==
    st.staging_buffer # None /\ DrapedLineCount(lines, st.max_draped_lines) = 0

\* the handles forgotten: only the device buffer is kept
StoreHandles_device_only(st, buffer, staging_buffer) ==
    [st EXCEPT !.draped_lines_buffer = Some(buffer)]

\* state.draped_lines_buffer = Some(buffer); state.staging_buffer = Some(..)
StoreHandles(st, buffer, staging_buffer) ==
    [st EXCEPT !.draped_lines_buffer = Some(buffer),
               !.staging_buffer = Some(staging_buffer)]

\* the copy run at once on the buffers instead of being queued
ScheduleCopy_immediate(queue, bufs, staging_buffer, draped_lines_buffer, size) ==
    [command_queue |-> queue,
     buffers |-> ExecuteCopy(bufs,
                    CopyBufferToBuffer(staging_buffer, 0, draped_lines_buffer,
                                       0, size))]

\* state.command_queue.copy_buffer_to_buffer(staging_buffer, 0,
\* draped_lines_buffer, 0, size): the copy is queued, no buffer is touched
ScheduleCopy(queue, bufs, staging_buffer, draped_lines_buffer, size) ==
    [command_queue |-> copy_buffer_to_buffer(queue, staging_buffer, 0,
                                             draped_lines_buffer, 0, size),
     buffers |-> bufs]

\* the run of the system as a function of the state it starts in: the
\* state, bindings, buffers and queue it leaves, the device calls it made
\* and whether it panicked
SystemRun(st, bs, bufs, queue, lines, fill_device, fill_staging) ==
    LET draped_line_count == DrapedLineCount(lines, st.max_draped_lines)
        draped_line_array_size == draped_line_size * draped_line_count
        draped_line_uniform_start == draped_line_count_size
        draped_line_uniform_end == draped_line_count_size + draped_line_array_size
        max_draped_line_uniform_size ==
            MaxDrapedLineUniformSize(st.max_draped_lines)
        ctx0 == ContextOf(bufs)
        unchanged == [state |-> st, bindings |-> bs, buffers |-> bufs,
                      command_queue |-> queue, ops |-> <<>>, panicked |-> FALSE]
    IN
    IF Skips(st, lines)
    THEN unchanged
    ELSE
    LET first == st.staging_buffer = None
        buffer == NewBufferId(ctx0)
        ctx1 == create_buffer(ctx0,
                    BufferInfoOf(max_draped_line_uniform_size,
                                 {"UNIFORM", "COPY_SRC", "COPY_DST"}, FALSE),
                    fill_device)
        bs1 == SetBinding(bs, DRAPED_LINES,
                    BufferBinding(buffer, 0, max_draped_line_uniform_size))
        ctx1b == LogSetBinding(ctx1, DRAPED_LINES)
        created_staging == NewBufferId(ctx1b)
        ctx2 == create_buffer(ctx1b,
                    BufferInfoOf(max_draped_line_uniform_size,
                                 {"COPY_SRC", "MAP_WRITE"}, TRUE),
                    fill_staging)
        st1 == IF first THEN StoreHandles(st, buffer, created_staging) ELSE st
        ctx3 == IF first THEN ctx2
                ELSE map_buffer(ctx0, unwrap(st.staging_buffer))
        staging_buffer == unwrap(st1.staging_buffer)
        cl == WriteClosure(
                Slice(ctx3.buffers[staging_buffer].data, 0,
                      max_draped_line_uniform_size),
                lines, draped_line_count,
                draped_line_uniform_start, draped_line_uniform_end)
        ctx5 == unmap_buffer(
                    write_mapped_buffer(ctx3, staging_buffer, 0,
                        max_draped_line_uniform_size, cl.data, cl.written),
                    staging_buffer)
    IN  IF st1.staging_buffer = None
        THEN \* state.staging_buffer.unwrap() panics
             [state |-> st1, bindings |-> IF first THEN bs1 ELSE bs,
              buffers |-> ctx3.buffers, command_queue |-> queue,
              ops |-> ctx3.ops, panicked |-> TRUE]
        ELSE IF st1.draped_lines_buffer = None
        THEN \* state.draped_lines_buffer.unwrap() panics
             [state |-> st1, bindings |-> IF first THEN bs1 ELSE bs,
              buffers |-> ctx5.buffers, command_queue |-> queue,
              ops |-> ctx5.ops, panicked |-> TRUE]
        ELSE [state |-> st1, bindings |-> IF first THEN bs1 ELSE bs,
              buffers |->
                 IF ctx5.ok
                 THEN ScheduleCopy(queue, ctx5.buffers, staging_buffer,
                          unwrap(st1.draped_lines_buffer),
                          max_draped_line_uniform_size).buffers
                 ELSE ctx5.buffers,
              command_queue |->
                 IF ctx5.ok
                 THEN ScheduleCopy(queue, ctx5.buffers, staging_buffer,
                          unwrap(st1.draped_lines_buffer),
                          max_draped_line_uniform_size).command_queue
                 ELSE queue,
              ops |-> IF ctx5.ok
                      THEN Append(ctx5.ops, [op |-> "copy_buffer_to_buffer",
                                             buffer |-> staging_buffer])
                      ELSE ctx5.ops,
              panicked |-> ~ctx5.ok]

draped_lines_node_system(lines, fill_device, fill_staging) ==
    /\ ~panicked
    /\ Len(command_queue) < MaxQueue
    /\ \E r \in {SystemRun(state, bindings, buffers, command_queue, lines,
                           fill_device, fill_staging)} :
          /\ state' = r.state
          /\ bindings' = r.bindings
          /\ buffers' = r.buffers
          /\ command_queue' = r.command_queue
          /\ ops' = r.ops
          /\ panicked' = r.panicked
    /\ last' = "system"
    /\ last_lines' = lines
    /\ executed' = <<>>
    /\ written_count' =
         IF state.staging_buffer # None
            /\ (Len(lines) = 0 \/ state.max_draped_lines = 0)
         THEN written_count
         ELSE IF Len(lines) <= state.max_draped_lines
              THEN Len(lines) ELSE state.max_draped_lines
    /\ UNCHANGED <<flushed, pkVars>>

\* what create_buffer may hand out: a choice only when the run creates
CreatedFills == IF state.staging_buffer = None THEN Fills ELSE {Zero4}

System ==
    \E lines \in Enumerations, fill_device \in CreatedFills,
       fill_staging \in CreatedFills :
        draped_lines_node_system(lines, fill_device, fill_staging)

(***************************************************************************)
(* DrapedLinesNode::update                                                 *)
(***************************************************************************)
Update ==
    \E r \in {execute(command_queue, buffers)} :
        /\ ~panicked
        /\ buffers' = r.buffers
        /\ command_queue' = r.queue
        /\ executed' = r.executed
        /\ flushed' = (flushed \/ r.executed # <<>>)
        /\ last' = "update"
        /\ ops' = <<>>
        /\ UNCHANGED <<state, bindings, panicked, last_lines, written_count,
                       pkVars>>

(***************************************************************************)
(* The line packer on its own.                                             *)
(***************************************************************************)
Pack ==
    /\ pk_out = None
    /\ pk_out' = Some(DrapedLineUniformOf(pk_in.line, pk_in.transform))
    /\ UNCHANGED <<pk_in, nodeVars>>

(***************************************************************************)
(* Specifications.                                                         *)
(***************************************************************************)
\* DrapedLinesNode::new(max_draped_lines) followed by get_system
InitNode(capacities) ==
    /\ state \in {[draped_lines_buffer |-> None, staging_buffer |-> None,
                   max_draped_lines |-> c] : c \in capacities}
    /\ command_queue = <<>>
    /\ buffers = <<>>
    /\ bindings = {}
    /\ panicked = FALSE
    /\ last = "none"
    /\ last_lines = <<>>
    /\ ops = <<>>
    /\ executed = <<>>
    /\ flushed = FALSE
    /\ written_count = 0

Init ==
    /\ InitNode(0..MaxCapacity)
    /\ pk_in = SetupLine
    /\ pk_out = None

\* the host may call the system and update in any order
Next == System \/ Update

Spec == Init /\ [][Next]_vars

\* the host calls the system, then update, in every frame
SystemInFrame == last # "system" /\ System
UpdateInFrame == last = "system" /\ Update
NextFrame == SystemInFrame \/ UpdateInFrame

SpecFrame == Init /\ [][NextFrame]_vars

\* the packer applied to one drawn input
InitPack ==
    /\ InitNode({MaxCapacity})
    /\ pk_in \in PackInputs
    /\ pk_out = None

NextPack == Pack

SpecPack == InitPack /\ [][NextPack]_vars

(***************************************************************************)
(* Observations used by the properties.                                    *)
(***************************************************************************)
Allocated == state.staging_buffer # None /\ state.draped_lines_buffer # None
Capacity == state.max_draped_lines
StagingData == buffers[unwrap(state.staging_buffer)].data
DeviceData == buffers[unwrap(state.draped_lines_buffer)].data

\* the u32 at byte 0
HeaderCount(data) == data[1][1]

\* the five Vec4s at the bytes [16 + 80 * i, 16 + 80 * (i + 1))
EntryAt(data, i) == SubSeq(data, 2 + 5 * i, 6 + 5 * i)

\* the Vec4 places of entry slot i, counted from 0
EntryPlaces(i) == {1 + 5 * i + j : j \in 0..4}

\* the places the last system run stored to
PlacesWritten ==
    UNION {ops[k].written : k \in {j \in DOMAIN ops : ops[j].op = "write_mapped_buffer"}}

\* a quaternion rotation of a vector, v + 2w(u x v) + 2 u x (u x v), for
\* the unit quaternion in the direction of q
Cross(a, b) == Vec3Of(a.y * b.z - a.z * b.y, a.z * b.x - a.x * b.z,
                      a.x * b.y - a.y * b.x)
Rotate(q, v) ==
    LET u == Vec3Of(q[1], q[2], q[3])
        uv == Cross(u, v)
        uuv == Cross(u, uv)
        k == 2 \div QuatNorm2(q)
    IN  Vec3Of(v.x + k * (q[4] * uv.x + uuv.x),
               v.y + k * (q[4] * uv.y + uuv.y),
               v.z + k * (q[4] * uv.z + uuv.z))

\* T * (v, w): scale, then rotate, then translate by w times the translation
AffineApply(t, v, w) ==
    LET r == Rotate(t.rotation,
                    Vec3Of(t.scale.x * v.x, t.scale.y * v.y, t.scale.z * v.z))
    IN  Vec4Of(r.x + w * t.translation.x, r.y + w * t.translation.y,
               r.z + w * t.translation.z, w)

(***************************************************************************)
(* C1.  After a frame (the system, then update) in which the host          *)
(* enumerates N lines, 0 <= N <= capacity, the count header of the device  *)
(* buffer equals N.  Stated as claimed; a zero-line frame after the first  *)
(* frame is skipped, so the header keeps the count of the frame before.    *)
(***************************************************************************)
C1_HeaderEqualsLineCount ==
    (last = "update" /\ Allocated /\ Len(last_lines) <= Capacity)
        => HeaderCount(DeviceData) = Len(last_lines)

(***************************************************************************)
(* C2.  A frame that enumerates N > capacity lines leaves the header count *)
(* capacity, stores to exactly the capacity entry slots (and, when it is   *)
(* not skipped, the header), holds the first capacity lines in enumeration *)
(* order, and does not panic.                                              *)
(***************************************************************************)
C2_TruncatesToCapacity ==
    (last = "system" /\ Len(last_lines) > Capacity) =>
        /\ ~panicked
        /\ Allocated
        /\ HeaderCount(StagingData) = Capacity
        /\ PlacesWritten \ {0} = UNION {EntryPlaces(i) : i \in 0..(Capacity - 1)}
        /\ \A i \in 0..(Capacity - 1) :
              EntryAt(StagingData, i) =
                BytesOfUniform(DrapedLineUniformOf(last_lines[i + 1].line,
                                                   last_lines[i + 1].transform))

C2_Witness ==
    /\ last = "system"
    /\ Capacity = 2
    /\ Len(last_lines) = 3
    /\ last_lines[1] # last_lines[2]
    /\ ops # <<>>

(***************************************************************************)
(* C3.  The first run of the system creates the device buffer and the      *)
(* staging buffer; after it no step creates a buffer or changes a handle.  *)
(***************************************************************************)
C3_BuffersCreatedOnce ==
    [][/\ (state.staging_buffer = None /\ last' = "system") =>
            /\ Len(buffers) = 0
            /\ Len(buffers') = 2
            /\ state'.draped_lines_buffer = Some(1)
            /\ state'.staging_buffer = Some(2)
       /\ (state.staging_buffer # None) =>
            /\ state' = state
            /\ Len(buffers') = Len(buffers)]_vars

C3_Witness ==
    /\ last = "system"
    /\ Allocated
    /\ Len(buffers) = 2
    /\ ops # <<>>
    /\ ops[1].op = "map_buffer"

(***************************************************************************)
(* C4.  With the buffers in place and a truncated line count of 0, the     *)
(* system run maps nothing, writes nothing, appends no copy and keeps the  *)
(* handles.                                                                *)
(***************************************************************************)
C4_ZeroLineFrameSkipped ==
    [][(/\ last' = "system"
        /\ state.staging_buffer # None
        /\ Min(Len(last_lines'), state.max_draped_lines) = 0) =>
            /\ ops' = <<>>
            /\ UNCHANGED <<state, command_queue, buffers, bindings, panicked>>]_vars

C4_Witness ==
    /\ last = "system"
    /\ Allocated
    /\ ops = <<>>
    /\ Min(Len(last_lines), Capacity) = 0
    /\ command_queue # <<>>

(***************************************************************************)
(* C5.  A system run that is not skipped appends exactly one copy: from    *)
(* the staging buffer at 0 to the device buffer at 0, of header size +     *)
(* capacity * entry size bytes, whatever the line count.                   *)
(***************************************************************************)
C5_OneFullCopyPerFrame ==
    [][(/\ last' = "system"
        /\ ~(state.staging_buffer # None
             /\ Min(Len(last_lines'), state.max_draped_lines) = 0)) =>
            /\ state'.staging_buffer # None
            /\ state'.draped_lines_buffer # None
            /\ command_queue' = Append(command_queue,
                 [source_buffer |-> unwrap(state'.staging_buffer),
                  source_offset |-> 0,
                  destination_buffer |-> unwrap(state'.draped_lines_buffer),
                  destination_offset |-> 0,
                  size |-> 16 + state.max_draped_lines * 80])]_vars

C5_Witness ==
    /\ last = "system"
    /\ ops # <<>>
    /\ Capacity = 2
    /\ Len(last_lines) = 1
    /\ command_queue # <<>>
    /\ command_queue[Len(command_queue)].size = 176

(***************************************************************************)
(* C6.  The packed plane_dir equals T * (D, 0).  Stated as claimed; the    *)
(* closure stores (D, 0) itself, without the transform.                    *)
(***************************************************************************)
C6_PlaneDirTransformed ==
    pk_out # None =>
        unwrap(pk_out).plane_dir =
            AffineApply(pk_in.transform, pk_in.line.plane_dir, 0)

(***************************************************************************)
(* C7.  The packed color equals the line's color field.  Stated as         *)
(* claimed; the closure stores Color::RED for every line.                  *)
(***************************************************************************)
C7_ColorForwarded ==
    pk_out # None => unwrap(pk_out).color = ColorIntoVec4(pk_in.line.color)

(***************************************************************************)
(* C8.  The packed point0 and point1 equal T * (P0, 1) and T * (P1, 1):    *)
(* scale, rotation and translation applied, fourth component 1.            *)
(***************************************************************************)
C8_PointsTransformed ==
    pk_out # None =>
        /\ unwrap(pk_out).point0 = AffineApply(pk_in.transform, pk_in.line.point0, 1)
        /\ unwrap(pk_out).point1 = AffineApply(pk_in.transform, pk_in.line.point1, 1)
        /\ unwrap(pk_out).point0[4] = 1
        /\ unwrap(pk_out).point1[4] = 1

C8_Witness ==
    /\ pk_out # None
    /\ pk_in.transform.translation = Vec3Of(10, 20, 30)
    /\ pk_in.transform.rotation = <<0, 1, 0, 1>>
    /\ pk_in.transform.scale = Vec3Of(2, 3, 4)
    /\ pk_in.line.point0 = Vec3Of(-5, 0, 7)
    /\ unwrap(pk_out).point0 = <<38, 20, 40, 1>>

(***************************************************************************)
(* C9.  update executes every queued copy, in the order of the queue, and  *)
(* leaves the queue empty; on an empty queue it executes nothing and       *)
(* changes no buffer.                                                      *)
(***************************************************************************)
C9_FlushDrainsInOrder ==
    [][last' = "update" =>
        /\ executed' = command_queue
        /\ command_queue' = <<>>
        /\ (command_queue = <<>> => buffers' = buffers)
        /\ (command_queue # <<>> =>
              buffers'[unwrap(state.draped_lines_buffer)].data =
                buffers[unwrap(state.staging_buffer)].data)]_vars

C9_Witness ==
    /\ last = "update"
    /\ Len(executed) = 2
    /\ command_queue = <<>>

(***************************************************************************)
(* C10.  With the system and update strictly alternating, the queue holds  *)
(* at most one copy when update starts and none when update has returned.  *)
(***************************************************************************)
C10_AtMostOnePending ==
    /\ Len(command_queue) <= 1
    /\ (last = "update" => command_queue = <<>>)
    /\ (last = "none" => command_queue = <<>>)

C10_Witness ==
    /\ last = "update"
    /\ Len(executed) = 1
    /\ command_queue = <<>>

(***************************************************************************)
(* C11.  The first system run creates both buffers with 16 + capacity * 80 *)
(* bytes and sets the binding "DrapedLines" once, to the device buffer     *)
(* with the range [0, 16 + capacity * 80); no later step sets or changes   *)
(* the binding, or changes a buffer's size.                                *)
(***************************************************************************)
C11_SizesAndBinding ==
    [][/\ (state.staging_buffer = None /\ last' = "system") =>
            /\ Len(buffers') = 2
            /\ \A b \in 1..2 :
                  buffers'[b].size = 16 + state.max_draped_lines * 80
            /\ state'.draped_lines_buffer # None
            /\ bindings' =
                 {[name |-> "DrapedLines",
                   binding |-> [buffer |-> unwrap(state'.draped_lines_buffer),
                                range_start |-> 0,
                                range_end |-> 16 + state.max_draped_lines * 80]]}
            /\ Cardinality({k \in DOMAIN ops' : ops'[k].op = "set_binding"}) = 1
       /\ (state.staging_buffer # None) =>
            /\ bindings' = bindings
            /\ \A k \in DOMAIN ops' : ops'[k].op # "set_binding"
            /\ \A b \in DOMAIN buffers : buffers'[b].size = buffers[b].size]_vars

C11_Witness ==
    /\ last = "system"
    /\ Capacity = 2
    /\ ops # <<>>
    /\ ops[1].op = "map_buffer"
    /\ buffers[1].size = 176
    /\ buffers[2].size = 176
    /\ \E b \in bindings : b.name = "DrapedLines" /\ b.binding.range_end = 176

(***************************************************************************)
(* C12.  A system run that is not skipped, with truncated count c, stores  *)
(* to the header and to the entry slots 0..c-1 only; the slots c..         *)
(* capacity-1 of the staging buffer keep what they held before the run     *)
(* (on the first run: what the buffer was created with).                   *)
(***************************************************************************)
C12_StaleSlotsKept ==
    [][(last' = "system" /\ ops' # <<>>) =>
        LET cap == state.max_draped_lines
            c == IF Len(last_lines') <= cap THEN Len(last_lines') ELSE cap
        IN  /\ PlacesWritten' = {0} \cup UNION {EntryPlaces(i) : i \in 0..(c - 1)}
            /\ state.staging_buffer # None =>
                 \A i \in c..(cap - 1) :
                    EntryAt(StagingData', i) = EntryAt(StagingData, i)
            /\ state.staging_buffer = None =>
                 \A i \in c..(cap - 1) :
                    \E f \in Fills : EntryAt(StagingData', i) = <<f, f, f, f, f>>]_vars

C12_Witness ==
    /\ last = "system"
    /\ ops # <<>>
    /\ ops[1].op = "map_buffer"
    /\ Capacity = 2
    /\ last_lines = <<SetupLine>>
    /\ EntryAt(StagingData, 1) =
         BytesOfUniform(DrapedLineUniformOf(MovedLine.line, MovedLine.transform))

(***************************************************************************)
(* C13.  As claimed: in every reachable state the count header of the      *)
(* staging buffer and the count header of the device buffer are both in    *)
(* 0..capacity.  The device buffer is created unmapped and is not written  *)
(* before the first copy runs, so until then its header is whatever        *)
(* create_buffer left.                                                     *)
(***************************************************************************)
C13_HeadersInRange ==
    Allocated =>
        /\ HeaderCount(StagingData) \in 0..Capacity
        /\ HeaderCount(DeviceData) \in 0..Capacity

(***************************************************************************)
(* C13, amended.  In every reachable state with the buffers created the    *)
(* staging header is in 0..capacity, and the device header is in           *)
(* 0..capacity once an update has executed a copy.                         *)
(***************************************************************************)
C13_HeadersInRangeOnceFlushed ==
    Allocated =>
        /\ HeaderCount(StagingData) \in 0..Capacity
        /\ flushed => HeaderCount(DeviceData) \in 0..Capacity

C13_Witness ==
    /\ Allocated
    /\ flushed
    /\ Capacity = 2
    /\ Len(last_lines) = 3
    /\ HeaderCount(DeviceData) = 2
    /\ HeaderCount(StagingData) = 2

\* the Vec4s at the bytes [lo, hi) of a buffer
BytesAt(data, lo, hi) == SubSeq(data, (lo \div 16) + 1, hi \div 16)

(***************************************************************************)
(* C14.  An update that follows a system run that was not skipped, with    *)
(* truncated count c, leaves in the device buffer the header (c, 0, 0, 0)  *)
(* at the bytes [0, 16) and, for each i < c, the packed i-th enumerated    *)
(* line at the bytes [16 + 80 * i, 16 + 80 * (i + 1)).                     *)
(***************************************************************************)
C14_DeviceLayoutAfterFlush ==
    [][(last = "system" /\ ops # <<>> /\ last' = "update") =>
        LET c == IF Len(last_lines) <= Capacity THEN Len(last_lines) ELSE Capacity
        IN  /\ BytesAt(DeviceData', 0, 16) = <<<<c, 0, 0, 0>>>>
            /\ \A i \in 0..(c - 1) :
                  BytesAt(DeviceData', 16 + 80 * i, 16 + 80 * (i + 1)) =
                    <<PackPoint(last_lines[i + 1].transform,
                                last_lines[i + 1].line.point0),
                      PackPoint(last_lines[i + 1].transform,
                                last_lines[i + 1].line.point1),
                      PackWidth(last_lines[i + 1].line),
                      PackColor(last_lines[i + 1].line),
                      PackPlaneDir(last_lines[i + 1].line,
                                   last_lines[i + 1].transform)>>]_vars

C14_Witness ==
    /\ last = "update"
    /\ executed # <<>>
    /\ Capacity = 2
    /\ last_lines = <<SetupLine, MovedLine, SetupLine>>
    /\ HeaderCount(DeviceData) = 2
    /\ BytesAt(DeviceData, 96, 176)[1] = <<4, 22, 42, 1>>

(***************************************************************************)
(* C15.  The first system run is not skipped even with no line: it creates *)
(* both buffers, sets the binding, stores the header (0, 0, 0, 0) to the   *)
(* staging buffer and appends one copy of the full region.  A later run    *)
(* with no line makes no call.                                             *)
(***************************************************************************)
C15_FirstRunNotSkipped ==
    [][/\ (state.staging_buffer = None /\ last' = "system"
           /\ Len(last_lines') = 0) =>
            /\ Len(buffers) = 0
            /\ Len(buffers') = 2
            /\ Allocated'
            /\ \E b \in bindings' : b.name = "DrapedLines"
            /\ \E k \in DOMAIN ops' : ops'[k].op = "set_binding"
            /\ 0 \in PlacesWritten'
            /\ StagingData'[1] = <<0, 0, 0, 0>>
            /\ command_queue' = Append(command_queue,
                 [source_buffer |-> unwrap(state'.staging_buffer),
                  source_offset |-> 0,
                  destination_buffer |-> unwrap(state'.draped_lines_buffer),
                  destination_offset |-> 0,
                  size |-> 16 + state.max_draped_lines * 80])
       /\ (state.staging_buffer # None /\ last' = "system"
           /\ Len(last_lines') = 0) =>
            /\ ops' = <<>>
            /\ command_queue' = command_queue]_vars

C15_Witness ==
    /\ last = "system"
    /\ last_lines = <<>>
    /\ Capacity = 2
    /\ Len(ops) = 6
    /\ ops[1].op = "create_buffer"
    /\ Len(command_queue) = 1
    /\ HeaderCount(StagingData) = 0

\* the names of the calls the last system run made about buffer b, in order
CallsAbout(b) ==
    LET about(o) == o.op # "set_binding" /\ o.buffer = b
        calls == SelectSeq(ops, about)
    IN  [k \in 1..Len(calls) |-> calls[k].op]

(***************************************************************************)
(* C16.  A system run that is not skipped makes, about the staging buffer, *)
(* exactly the calls create_buffer (first run, mapped at creation) or      *)
(* map_buffer (later runs), then write_mapped_buffer, unmap_buffer and the *)
(* append of the copy, in this order; no call is made on a buffer in the   *)
(* wrong mapping state (a panic), and the staging buffer is unmapped in    *)
(* every state between two calls of the host.                              *)
(***************************************************************************)
C16_MapWriteUnmapCopy ==
    /\ ~panicked
    /\ Allocated => ~buffers[unwrap(state.staging_buffer)].mapped
    /\ (last = "system" /\ ops # <<>>) =>
          /\ Allocated
          /\ CallsAbout(unwrap(state.staging_buffer)) \in
               {<<"create_buffer", "write_mapped_buffer", "unmap_buffer",
                  "copy_buffer_to_buffer">>,
                <<"map_buffer", "write_mapped_buffer", "unmap_buffer",
                  "copy_buffer_to_buffer">>}
          /\ command_queue # <<>>
          /\ command_queue[Len(command_queue)].source_buffer =
               unwrap(state.staging_buffer)

C16_Witness ==
    /\ last = "system"
    /\ Allocated
    /\ CallsAbout(unwrap(state.staging_buffer)) =
         <<"map_buffer", "write_mapped_buffer", "unmap_buffer",
           "copy_buffer_to_buffer">>
    /\ Len(command_queue) = 2
    /\ ~buffers[unwrap(state.staging_buffer)].mapped

(***************************************************************************)
(* C17.  With the system and update alternating: after every update the    *)
(* count header of the device buffer is min(N, capacity) of the last       *)
(* system run that was not skipped; a skipped run, and the update after    *)
(* it, leave the device buffer as it was.                                  *)
(***************************************************************************)
C17_DeviceShowsLastWrittenFrame ==
    [][/\ last' = "update" =>
            /\ Allocated'
            /\ HeaderCount(DeviceData') = written_count'
       /\ (Allocated /\ last' = "system" /\ ops' = <<>>) =>
            /\ DeviceData' = DeviceData
            /\ written_count' = written_count
       /\ (last = "system" /\ ops = <<>> /\ last' = "update") =>
            DeviceData' = DeviceData]_vars

C17_Witness ==
    /\ last = "update"
    /\ executed = <<>>
    /\ last_lines = <<>>
    /\ Capacity = 2
    /\ written_count = 2
    /\ HeaderCount(DeviceData) = 2
    /\ BytesAt(DeviceData, 96, 176)[1] = <<4, 22, 42, 1>>

(***************************************************************************)
(* C18.  No system run changes the contents of the device buffer: the run  *)
(* that creates it leaves it as created, every later run leaves it equal;  *)
(* the contents change only in an update that executes a queued copy.      *)
(***************************************************************************)
C18_OnlyUpdateWritesDevice ==
    [][/\ (state.draped_lines_buffer = None /\ last' = "system") =>
            /\ state'.draped_lines_buffer # None
            /\ \E f \in Fills : \A w \in DOMAIN DeviceData' : DeviceData'[w] = f
       /\ (state.draped_lines_buffer # None /\ last' = "system") =>
            DeviceData' = DeviceData
       /\ (state.draped_lines_buffer # None /\ DeviceData' # DeviceData) =>
            /\ last' = "update"
            /\ command_queue # <<>>
            /\ executed' = command_queue]_vars

C18_Witness ==
    /\ last = "system"
    /\ ops # <<>>
    /\ flushed
    /\ Capacity = 2
    /\ HeaderCount(StagingData) = 1
    /\ HeaderCount(DeviceData) = 2

(***************************************************************************)
(* C19.  A system run that does not directly follow another system run     *)
(* (so every run, when the system and update alternate) maps and writes    *)
(* the staging buffer with the queue empty.  A system run that is not      *)
(* skipped and directly follows a system run with a copy pending maps and  *)
(* overwrites the staging buffer while that copy is pending; the update    *)
(* that then executes two or more copies leaves the device buffer equal to *)
(* the staging buffer as the last run left it, for every one of them.      *)
(***************************************************************************)
C19_StagingReuseAndPendingCopies ==
    [][/\ (last # "system" /\ last' = "system" /\ ops' # <<>>) =>
            command_queue = <<>>
       /\ (last = "system" /\ command_queue # <<>> /\ last' = "system"
           /\ ops' # <<>>) =>
            /\ ops'[1].op = "map_buffer"
            /\ ops'[1].buffer = command_queue[1].source_buffer
            /\ ops'[2].op = "write_mapped_buffer"
            /\ Len(command_queue') = Len(command_queue) + 1
            /\ SubSeq(command_queue', 1, Len(command_queue)) = command_queue
       /\ (last' = "update" /\ Len(command_queue) >= 2) =>
            /\ \A k \in DOMAIN command_queue :
                  command_queue[k] = command_queue[1]
            /\ executed' = command_queue
            /\ StagingData' = StagingData
            /\ DeviceData' = StagingData
            /\ HeaderCount(DeviceData') = written_count]_vars

C19_Witness ==
    /\ last = "update"
    /\ Len(executed) = 2
    /\ executed[1] = executed[2]
    /\ Capacity = 2
    /\ last_lines = <<SetupLine>>
    /\ DeviceData = StagingData
    /\ HeaderCount(DeviceData) = 1
    /\ EntryAt(DeviceData, 1) =
         BytesOfUniform(DrapedLineUniformOf(MovedLine.line, MovedLine.transform))

====
